---- MODULE Spec2Model ----
(***************************************************************************)
(* Model of kubermatic/resource_project.go: the Terraform resource         *)
(* "project" with its four operations resourceProjectCreate, -Read,        *)
(* -Update and -Delete, running against a remote Kubermatic API whose      *)
(* projects become Active and disappear asynchronously.                    *)
(*                                                                         *)
(* The loops the operations run in (resource.StateChangeConf.WaitForState  *)
(* and resource.Retry of the plugin SDK) are modelled step by step at the  *)
(* places the source calls them: one probe per step, a discrete clock      *)
(* whose ticks separate two probes, and a timeout that ends the loop.      *)
(***************************************************************************)
EXTENDS Integers, Sequences, FiniteSets, TLC

(* ---------------------------- bounds ---------------------------------- *)

\* d.Timeout(schema.TimeoutCreate/Read/Delete), in clock ticks.  At least
\* one tick passes between two probes of a loop (MinTimeout > 0).
Timeout == 3

\* number of operations Terraform invokes on the resource in one run
MaxOps == 3

(* ---------------------------- constants ------------------------------- *)

projectActive == "Active"
projectInactive == "Inactive"
\* the status the remote reports once a deletion was requested
projectTerminating == "Terminating"

StatusForbidden == 403
StatusNotFound == 404

Ids == {"p1"}
Names == {"team-a", "team-b"}
\* label maps, as sets of <<key, value>> pairs with unique keys
LabelSets == { {}, {<<"a", "1">>}, {<<"a", "1">>, <<"b", "2">>} }

(* ---------------------------- remote side ----------------------------- *)

\* a project as the remote holds it; status "Gone" stands for no project
Gone == [name |-> "", labels |-> {}, status |-> "Gone", delTs |-> FALSE]

Exists(p) == p.status # "Gone"

\* responses of the remote client
OkResp(p) == [t |-> "ok", timeout |-> FALSE, temporary |-> FALSE, code |-> 0, p |-> p]
ErrNet(to, tmp) == [t |-> "net", timeout |-> to, temporary |-> tmp, code |-> 0, p |-> Gone]
ErrConflict == [t |-> "conflict", timeout |-> FALSE, temporary |-> FALSE, code |-> 409, p |-> Gone]
ErrUnauthorized == [t |-> "unauthorized", timeout |-> FALSE, temporary |-> FALSE, code |-> 401, p |-> Gone]
ErrDefault(c) == [t |-> "default", timeout |-> FALSE, temporary |-> FALSE, code |-> c, p |-> Gone]
ErrUnknown == [t |-> "unknown", timeout |-> FALSE, temporary |-> FALSE, code |-> 0, p |-> Gone]

\* failures the remote or the transport can produce whatever the project's state
Faults ==
  { ErrNet(TRUE, FALSE), ErrNet(FALSE, TRUE), ErrNet(FALSE, FALSE),
    ErrConflict, ErrUnauthorized,
    ErrDefault(StatusForbidden), ErrDefault(500), ErrUnknown }

\* what GetProject(id) can answer when the remote holds rem
GetResponses(rem, id) ==
  { IF Exists(rem[id]) THEN OkResp(rem[id]) ELSE ErrDefault(StatusNotFound) } \cup Faults

\* the same response with Forbidden and NotFound exchanged at will
Variants(r) ==
  IF r.t = "default" /\ r.code \in {StatusForbidden, StatusNotFound}
  THEN {ErrDefault(StatusForbidden), ErrDefault(StatusNotFound)}
  ELSE {r}

\* short name of a response, for the call log and for error texts
Label(r) ==
  CASE r.t = "ok" -> r.p.status
    [] r.t = "net" -> IF r.timeout \/ r.temporary THEN "net-transient" ELSE "net-permanent"
    [] r.t = "default" -> IF r.code = StatusForbidden THEN "403"
                          ELSE IF r.code = StatusNotFound THEN "404" ELSE "500"
    [] OTHER -> r.t

(* ---------------------------- errors ---------------------------------- *)

\* an error value: its kind, whether its text names the project id, whether
\* it names the operation, the status it quotes, and the remote error in it
NoErr == [kind |-> "none", hasId |-> FALSE, hasOp |-> FALSE, status |-> "", cause |-> "none"]
Err(k, i, o, s, c) == [kind |-> k, hasId |-> i, hasOp |-> o, status |-> s, cause |-> c]

NoResult == [op |-> "none", err |-> NoErr]

(* ---------------------------- local side ------------------------------ *)

VARIABLES loc, twin, remote

vars == <<loc, twin, remote>>

NoPayload == [name |-> "", hasLabels |-> FALSE, labels |-> {}]

\* the ResourceData's id, name and labels when the operation in flight began
NoPrev == [id |-> "", name |-> "", labels |-> {}]

\* the state of one resource instance: the ResourceData d (id, name, labels,
\* status, deletion_timestamp and the configured name and labels), the
\* position in the operation in flight, and the loop's bookkeeping
InitLoc ==
  [ pc |-> "idle", op |-> "none", ops |-> 0,
    id |-> "", name |-> "", labels |-> {}, status |-> "", delTs |-> FALSE,
    cfgName |-> "", cfgLabels |-> {},
    cid |-> "", payload |-> NoPayload, prev |-> NoPrev,
    elapsed |-> 0, slept |-> TRUE, probes |-> 0,
    lastState |-> "", lastErr |-> NoErr, resultErr |-> NoErr,
    log |-> << >>, result |-> NoResult ]

Init ==
  /\ loc = InitLoc
  /\ twin = InitLoc
  /\ remote = [i \in Ids |-> Gone]

(* ---------------------------- helpers ---------------------------------- *)

\* the operation returns e (NoErr for nil) to Terraform
Return(L, e) == [L EXCEPT !.pc = "idle", !.result = [op |-> L.op, err |-> e]]

\* one remote call and its answer, appended to the operation's call log: the
\* place of the call in the operation (L.pc) and the answer's short name
Logged(L, r) == [L EXCEPT !.log = Append(@, <<L.pc, Label(r)>>)]

\* WaitForState starts: clock at zero, no wait before the first probe
EnterLoop(L, pc) ==
  [L EXCEPT !.pc = pc, !.elapsed = 0, !.slept = TRUE, !.probes = 0,
            !.lastState = "", !.lastErr = NoErr, !.resultErr = NoErr]

\* Terraform hands the operation a ResourceData and the operation starts
Begin(L, op, pc) ==
  [L EXCEPT !.pc = pc, !.op = op, !.ops = @ + 1, !.cid = "", !.payload = NoPayload,
            !.prev = [id |-> L.id, name |-> L.name, labels |-> L.labels],
            !.elapsed = 0, !.slept = TRUE, !.probes = 0,
            !.lastState = "", !.lastErr = NoErr, !.resultErr = NoErr,
            !.log = << >>, !.result = NoResult]

\* the resource is in Terraform's state: Read, Update and Delete apply
Tracked(L) ==
  /\ L.pc = "idle"
  /\ L.id # ""
  /\ ~(L.result.op = "delete" /\ L.result.err = NoErr)

\* the resource is not in Terraform's state (never created, dropped by Read,
\* or destroyed): Create applies, on a fresh ResourceData
Untracked(L) ==
  /\ L.pc = "idle"
  /\ \/ L.id = ""
     \/ L.result.op = "delete" /\ L.result.err = NoErr

(* ---------------------------- the SDK's loops ------------------------- *)

\* mutation: an error of the refresh does not end the loop
WaitOutcomeIgnoresError(pending, target, state, failed, expired) ==
  IF ~failed /\ state \in target THEN "done"
  ELSE IF expired THEN "timeout"
  ELSE IF failed THEN "continue"
  ELSE IF state \in pending THEN "continue"
  ELSE "unexpected"

\* what one round of StateChangeConf.WaitForState makes of a refresh result:
\* an error ends the loop, a target state ends it with success, a pending
\* state goes on, any other state is unexpected; a result that is not the
\* target and arrives when the timeout has fired becomes the TimeoutError
WaitOutcome(pending, target, state, failed, expired) ==
  IF ~failed /\ state \in target THEN "done"
  ELSE IF expired THEN "timeout"
  ELSE IF failed THEN "error"
  ELSE IF state \in pending THEN "continue"
  ELSE "unexpected"

\* a RetryFunc's result: nil, RetryableError(err) or NonRetryableError(err)
RetryNil == [retry |-> "nil", err |-> NoErr]
RetryableError(e) == [retry |-> "retryable", err |-> e]
NonRetryableError(e) == [retry |-> "nonretryable", err |-> e]

\* mutation: Retry keeps f's first error instead of its last
RetryRoundFirstErr(L, fr) ==
  LET out == WaitOutcome({"retryableerror"}, {"success"},
                         IF fr.retry = "nil" THEN "success" ELSE "retryableerror",
                         fr.retry = "nonretryable", L.elapsed = Timeout)
      kept == IF L.resultErr = NoErr THEN fr.err ELSE L.resultErr
      L1 == [L EXCEPT !.probes = @ + 1, !.slept = FALSE, !.resultErr = kept]
  IN CASE out = "done" -> Return(L1, NoErr)
       [] out = "continue" -> L1
       [] OTHER -> Return(L1, kept)

\* one round of resource.Retry around f's result fr, L already holding f's
\* effects: Retry keeps f's last error (resultErr) and returns it in place
\* of WaitForState's own error
RetryRound(L, fr) ==
  LET out == WaitOutcome({"retryableerror"}, {"success"},
                         IF fr.retry = "nil" THEN "success" ELSE "retryableerror",
                         fr.retry = "nonretryable", L.elapsed = Timeout)
      L1 == [L EXCEPT !.probes = @ + 1, !.slept = FALSE, !.resultErr = fr.err]
  IN CASE out = "done" -> Return(L1, NoErr)
       [] out = "continue" -> L1
       [] OTHER -> Return(L1, fr.err)

\* the clock advances while a loop runs; a tick also ends the wait between
\* two probes
Tick(L) == [L EXCEPT !.elapsed = @ + 1, !.slept = TRUE]

InLoop(L) == L.pc \in {"create_poll", "read_loop", "delete_loop"}

\* the timeout fires while the loop waits for its next probe: WaitForState
\* returns a TimeoutError with the last state; Create wraps it, Retry returns
\* f's last error if there is one
TimedOut(L) ==
  IF L.pc = "create_poll"
  THEN Return(L, Err("Timeout", TRUE, TRUE, L.lastState, L.lastErr.cause))
  ELSE IF L.resultErr = NoErr
       THEN Return(L, Err("Timeout", FALSE, FALSE, L.lastState, "none"))
       ELSE Return(L, L.resultErr)

(* ---------------------------- Create ---------------------------------- *)

\* mutation: a project being taken down counts as pending too
CreatePendingTerminating == {projectInactive, projectTerminating}

\* mutation: no state counts as pending
CreatePendingNone == {}

CreatePending == {projectInactive}

\* mutation: pending and target states confused
CreateTargetSwapped == {projectInactive}

CreateTarget == {projectActive}

\* the body of the create request: the name, and the labels when configured
CreatePayload(L) ==
  [name |-> L.cfgName, hasLabels |-> L.cfgLabels # {},
   labels |-> IF L.cfgLabels # {} THEN L.cfgLabels ELSE {}]

\* Create begins on a fresh ResourceData holding the configuration
BeginCreate(L, n, ls) ==
  [Begin(L, "create", "create_call") EXCEPT
     !.id = "", !.name = "", !.labels = {}, !.status = "", !.delTs = FALSE,
     !.prev = NoPrev, !.cfgName = n, !.cfgLabels = ls]

\* mutation: the poll starts whatever CreateProject answered
CreateCalledIgnoresError(L, r, id) ==
  LET L1 == Logged([L EXCEPT !.payload = CreatePayload(L)], r)
  IN EnterLoop([L1 EXCEPT !.cid = id], "create_poll")

\* CreateProject answered r, assigning id on success
CreateCalled(L, r, id) ==
  LET L1 == Logged([L EXCEPT !.payload = CreatePayload(L)], r)
  IN IF r.t # "ok"
     THEN Return(L1, Err("CreateFailed", FALSE, TRUE, "", Label(r)))
     ELSE EnterLoop([L1 EXCEPT !.cid = id], "create_poll")

\* mutation: Refresh reports a project that is not there as Active
CreateRefreshAbsentOk(L, r) ==
  LET gone == r.t = "default" /\ r.code \in {StatusForbidden, StatusNotFound}
      failed == r.t # "ok" /\ ~gone
      state == IF gone THEN projectActive ELSE IF failed THEN "" ELSE r.p.status
      cause == IF failed THEN Label(r) ELSE "none"
      out == WaitOutcome(CreatePending, CreateTarget, state, failed, L.elapsed = Timeout)
      L1 == Logged([L EXCEPT !.probes = @ + 1, !.slept = FALSE, !.lastState = state,
                             !.lastErr = IF failed THEN Err("RemoteError", FALSE, FALSE, "", cause)
                                         ELSE NoErr], r)
  IN CASE out = "done" -> EnterLoop([L1 EXCEPT !.id = L.cid], "read_loop")
       [] out = "continue" -> L1
       [] out = "error" -> Return(L1, Err("RemoteError", TRUE, TRUE, "", cause))
       [] out = "unexpected" -> Return(L1, Err("UnexpectedState", TRUE, TRUE, state, "none"))
       [] OTHER -> Return(L1, Err("Timeout", TRUE, TRUE, state, cause))

\* one round of createStateConf.WaitForState: Refresh gets the project and
\* reports its status, or the error of the call
CreateRefresh(L, r) ==
  LET failed == r.t # "ok"
      state == IF failed THEN "" ELSE r.p.status
      cause == IF failed THEN Label(r) ELSE "none"
      out == WaitOutcome(CreatePending, CreateTarget, state, failed, L.elapsed = Timeout)
      L1 == Logged([L EXCEPT !.probes = @ + 1, !.slept = FALSE, !.lastState = state,
                             !.lastErr = IF failed THEN Err("RemoteError", FALSE, FALSE, "", cause)
                                         ELSE NoErr], r)
  IN CASE out = "done" -> EnterLoop([L1 EXCEPT !.id = L.cid], "read_loop")
       [] out = "continue" -> L1
       [] out = "error" -> Return(L1, Err("RemoteError", TRUE, TRUE, "", cause))
       [] out = "unexpected" -> Return(L1, Err("UnexpectedState", TRUE, TRUE, state, "none"))
       [] OTHER -> Return(L1, Err("Timeout", TRUE, TRUE, state, cause))

(* ---------------------------- Read ------------------------------------ *)

\* mutation: only 404 drops the project from the state
ReadClassifyOnly404(e) ==
  IF e.t = "net"
  THEN IF e.timeout \/ e.temporary THEN "Retryable" ELSE "NonRetryable"
  ELSE IF e.t \in {"conflict", "unauthorized"} THEN "NonRetryable"
  ELSE IF e.t = "default" /\ e.code = StatusNotFound THEN "NotFound"
  ELSE "NonRetryable"

\* mutation: only a network timeout is retried, not a temporary failure
ReadClassifyTimeoutOnly(e) ==
  IF e.t = "net"
  THEN IF e.timeout THEN "Retryable" ELSE "NonRetryable"
  ELSE IF e.t \in {"conflict", "unauthorized"} THEN "NonRetryable"
  ELSE IF e.t = "default" /\ e.code \in {StatusForbidden, StatusNotFound} THEN "NotFound"
  ELSE "NonRetryable"

\* how Read's type switch sorts the error of GetProject
ReadClassify(e) ==
  IF e.t = "net"
  THEN IF e.timeout \/ e.temporary THEN "Retryable" ELSE "NonRetryable"
  ELSE IF e.t \in {"conflict", "unauthorized"} THEN "NonRetryable"
  ELSE IF e.t = "default" /\ e.code \in {StatusForbidden, StatusNotFound} THEN "NotFound"
  ELSE "NonRetryable"

\* mutation: Read forgets to copy the labels
ReadAttemptNoLabels(L, r) ==
  IF r.t # "ok"
  THEN CASE ReadClassify(r) = "Retryable" ->
              [d |-> L, fr |-> RetryableError(Err("NetworkIssue", TRUE, TRUE, "", Label(r)))]
         [] ReadClassify(r) = "NotFound" ->
              [d |-> [L EXCEPT !.id = ""], fr |-> RetryNil]
         [] OTHER ->
              [d |-> L, fr |-> NonRetryableError(Err("RemoteError", FALSE, FALSE, "", Label(r)))]
  ELSE [d |-> [L EXCEPT !.name = r.p.name,
                        !.status = r.p.status, !.delTs = r.p.delTs],
        fr |-> RetryNil]

\* mutation: any error that ends Read drops the project from the state
ReadAttemptDropsOnError(L, r) ==
  IF r.t # "ok"
  THEN CASE ReadClassify(r) = "Retryable" ->
              [d |-> L, fr |-> RetryableError(Err("NetworkIssue", TRUE, TRUE, "", Label(r)))]
         [] ReadClassify(r) = "NotFound" ->
              [d |-> [L EXCEPT !.id = ""], fr |-> RetryNil]
         [] OTHER ->
              [d |-> [L EXCEPT !.id = ""],
               fr |-> NonRetryableError(Err("RemoteError", FALSE, FALSE, "", Label(r)))]
  ELSE [d |-> [L EXCEPT !.name = r.p.name, !.labels = r.p.labels,
                        !.status = r.p.status, !.delTs = r.p.delTs],
        fr |-> RetryNil]

\* one call of Read's RetryFunc on the answer r: the ResourceData after it
\* and the RetryError it returns
ReadAttempt(L, r) ==
  IF r.t # "ok"
  THEN CASE ReadClassify(r) = "Retryable" ->
              [d |-> L, fr |-> RetryableError(Err("NetworkIssue", TRUE, TRUE, "", Label(r)))]
         [] ReadClassify(r) = "NotFound" ->
              [d |-> [L EXCEPT !.id = ""], fr |-> RetryNil]
         [] OTHER ->
              [d |-> L, fr |-> NonRetryableError(Err("RemoteError", FALSE, FALSE, "", Label(r)))]
  ELSE [d |-> [L EXCEPT !.name = r.p.name, !.labels = r.p.labels,
                        !.status = r.p.status, !.delTs = r.p.delTs],
        fr |-> RetryNil]

\* one round of Read's resource.Retry
ReadRound(L, r) ==
  LET a == ReadAttempt(L, r)
  IN RetryRound(Logged(a.d, r), a.fr)

\* Read begins on the tracked resource
BeginRead(L) == EnterLoop(Begin(L, "read", "read_loop"), "read_loop")

(* ---------------------------- Update ---------------------------------- *)

\* mutation: only the labels that are new are sent
UpdatePayloadDelta(L) ==
  [name |-> L.cfgName, hasLabels |-> L.cfgLabels # L.labels,
   labels |-> IF L.cfgLabels # L.labels THEN L.cfgLabels \ L.labels ELSE {}]

\* the body of the update request: always the name, the labels when they
\* changed against the state
UpdatePayload(L) ==
  [name |-> L.cfgName, hasLabels |-> L.cfgLabels # L.labels,
   labels |-> IF L.cfgLabels # L.labels THEN L.cfgLabels ELSE {}]

\* Update begins with a new configuration for the tracked resource
BeginUpdate(L, n, ls) ==
  [Begin(L, "update", "update_call") EXCEPT !.cfgName = n, !.cfgLabels = ls]

\* mutation: a project that is not there makes Update drop it and return nil
UpdateCalledAbsentOk(L, r) ==
  LET L1 == Logged([L EXCEPT !.payload = UpdatePayload(L)], r)
  IN IF r.t = "default" /\ r.code \in {StatusForbidden, StatusNotFound}
     THEN Return([L1 EXCEPT !.id = ""], NoErr)
     ELSE IF r.t # "ok"
     THEN Return(L1, Err("UpdateFailed", TRUE, TRUE, "", Label(r)))
     ELSE EnterLoop(L1, "read_loop")

\* UpdateProject answered r
UpdateCalled(L, r) ==
  LET L1 == Logged([L EXCEPT !.payload = UpdatePayload(L)], r)
  IN IF r.t # "ok"
     THEN Return(L1, Err("UpdateFailed", TRUE, TRUE, "", Label(r)))
     ELSE EnterLoop(L1, "read_loop")

(* ---------------------------- Delete ---------------------------------- *)

BeginDelete(L) == Begin(L, "delete", "delete_call")

\* mutation: a project that is already gone counts as a delete under way
DeleteCalledAbsentOk(L, r) ==
  LET L1 == Logged(L, r)
  IN IF r.t # "ok" /\ ~(r.t = "default" /\ r.code \in {StatusForbidden, StatusNotFound})
     THEN Return(L1, Err("DeleteFailed", TRUE, TRUE, "", Label(r)))
     ELSE EnterLoop(L1, "delete_loop")

\* DeleteProject answered r
DeleteCalled(L, r) ==
  LET L1 == Logged(L, r)
  IN IF r.t # "ok"
     THEN Return(L1, Err("DeleteFailed", TRUE, TRUE, "", Label(r)))
     ELSE EnterLoop(L1, "delete_loop")

\* mutation: a project that is still there ends the loop for good
DeleteAttemptFoundFatal(r) ==
  IF r.t # "ok"
  THEN IF r.t = "default" /\ r.code \in {StatusForbidden, StatusNotFound}
       THEN RetryNil
       ELSE NonRetryableError(Err("RemoteError", FALSE, FALSE, "", Label(r)))
  ELSE NonRetryableError(Err("StillExists", TRUE, FALSE, r.p.status, "none"))

\* mutation: a project with a deletion timestamp counts as gone
DeleteAttemptDelTsOk(r) ==
  IF r.t # "ok"
  THEN IF r.t = "default" /\ r.code \in {StatusForbidden, StatusNotFound}
       THEN RetryNil
       ELSE NonRetryableError(Err("RemoteError", FALSE, FALSE, "", Label(r)))
  ELSE IF r.p.delTs
       THEN RetryNil
       ELSE RetryableError(Err("StillExists", TRUE, FALSE, r.p.status, "none"))

\* mutation: only 404 counts as gone
DeleteAttemptOnly404(r) ==
  IF r.t # "ok"
  THEN IF r.t = "default" /\ r.code = StatusNotFound
       THEN RetryNil
       ELSE NonRetryableError(Err("RemoteError", FALSE, FALSE, "", Label(r)))
  ELSE RetryableError(Err("StillExists", TRUE, FALSE, r.p.status, "none"))

\* one call of Delete's RetryFunc on the answer r
DeleteAttempt(r) ==
  IF r.t # "ok"
  THEN IF r.t = "default" /\ r.code \in {StatusForbidden, StatusNotFound}
       THEN RetryNil
       ELSE NonRetryableError(Err("RemoteError", FALSE, FALSE, "", Label(r)))
  ELSE RetryableError(Err("StillExists", TRUE, FALSE, r.p.status, "none"))

\* one round of Delete's resource.Retry
DeleteRound(L, r) == RetryRound(Logged(L, r), DeleteAttempt(r))

(* ---------------------------- the remote's answers --------------------- *)

\* ids the remote can assign to a new project
FreeIds(rem) == {i \in Ids : ~Exists(rem[i])}

\* the project CreateProject makes of a request body
Created(pl) ==
  [name |-> pl.name, labels |-> IF pl.hasLabels THEN pl.labels ELSE {},
   status |-> projectInactive, delTs |-> FALSE]

\* the project after UpdateProject with body pl: the remote replaces the name
\* and, when the body carries labels, the whole label set
Updated(p, pl) ==
  [p EXCEPT !.name = pl.name, !.labels = IF pl.hasLabels THEN pl.labels ELSE @]

\* the project after DeleteProject: still there, with a deletion timestamp
Deleting(p) == [p EXCEPT !.delTs = TRUE]

\* what UpdateProject(id) and DeleteProject(id) can answer
CallResponses(rem, id) ==
  { IF Exists(rem[id]) THEN OkResp(rem[id]) ELSE ErrDefault(StatusNotFound) } \cup Faults

(* ---------------------------- actions ---------------------------------- *)

StartCreate ==
  /\ Untracked(loc)
  /\ loc.ops < MaxOps
  /\ \E n \in Names, ls \in LabelSets :
       /\ loc' = BeginCreate(loc, n, ls)
       /\ twin' = BeginCreate(twin, n, ls)
  /\ UNCHANGED remote

CreateCall ==
  /\ loc.pc = "create_call"
  /\ \/ \E id \in FreeIds(remote) :
          LET p == Created(CreatePayload(loc))
          IN /\ loc' = CreateCalled(loc, OkResp(p), id)
             /\ twin' = CreateCalled(twin, OkResp(p), id)
             /\ remote' = [remote EXCEPT ![id] = p]
     \/ \E r \in Faults : \E r2 \in Variants(r) :
          /\ loc' = CreateCalled(loc, r, "")
          /\ twin' = CreateCalled(twin, r2, "")
          /\ UNCHANGED remote

CreatePoll ==
  /\ loc.pc = "create_poll"
  /\ loc.slept
  /\ \E r \in GetResponses(remote, loc.cid) : \E r2 \in Variants(r) :
       /\ loc' = CreateRefresh(loc, r)
       /\ twin' = CreateRefresh(twin, r2)
  /\ UNCHANGED remote

StartRead ==
  /\ Tracked(loc)
  /\ loc.ops < MaxOps
  /\ loc' = BeginRead(loc)
  /\ twin' = BeginRead(twin)
  /\ UNCHANGED remote

ReadProbe ==
  /\ loc.pc = "read_loop"
  /\ loc.slept
  /\ \E r \in GetResponses(remote, loc.id) : \E r2 \in Variants(r) :
       /\ loc' = ReadRound(loc, r)
       /\ twin' = ReadRound(twin, r2)
  /\ UNCHANGED remote

StartUpdate ==
  /\ Tracked(loc)
  /\ loc.ops < MaxOps
  /\ \E n \in Names, ls \in LabelSets :
       /\ <<n, ls>> # <<loc.name, loc.labels>>
       /\ loc' = BeginUpdate(loc, n, ls)
       /\ twin' = BeginUpdate(twin, n, ls)
  /\ UNCHANGED remote

UpdateCall ==
  /\ loc.pc = "update_call"
  /\ \E r \in CallResponses(remote, loc.id) : \E r2 \in Variants(r) :
       /\ loc' = UpdateCalled(loc, r)
       /\ twin' = UpdateCalled(twin, r2)
       /\ remote' = IF r.t = "ok"
                    THEN [remote EXCEPT ![loc.id] = Updated(@, UpdatePayload(loc))]
                    ELSE remote

StartDelete ==
  /\ Tracked(loc)
  /\ loc.ops < MaxOps
  /\ loc' = BeginDelete(loc)
  /\ twin' = BeginDelete(twin)
  /\ UNCHANGED remote

DeleteCall ==
  /\ loc.pc = "delete_call"
  /\ \E r \in CallResponses(remote, loc.id) : \E r2 \in Variants(r) :
       /\ loc' = DeleteCalled(loc, r)
       /\ twin' = DeleteCalled(twin, r2)
       /\ remote' = IF r.t = "ok"
                    THEN [remote EXCEPT ![loc.id] = Deleting(@)]
                    ELSE remote

DeleteProbe ==
  /\ loc.pc = "delete_loop"
  /\ loc.slept
  /\ \E r \in GetResponses(remote, loc.id) : \E r2 \in Variants(r) :
       /\ loc' = DeleteRound(loc, r)
       /\ twin' = DeleteRound(twin, r2)
  /\ UNCHANGED remote

ClockTick ==
  /\ InLoop(loc)
  /\ loc.elapsed < Timeout
  /\ loc' = Tick(loc)
  /\ twin' = Tick(twin)
  /\ UNCHANGED remote

LoopTimeout ==
  /\ InLoop(loc)
  /\ loc.elapsed = Timeout
  /\ loc' = TimedOut(loc)
  /\ twin' = TimedOut(twin)
  /\ UNCHANGED remote

\* the remote finishes setting up a project
Activate ==
  \E i \in Ids :
    /\ remote[i].status = projectInactive
    /\ remote' = [remote EXCEPT ![i].status = projectActive]
    /\ UNCHANGED <<loc, twin>>

\* somebody else asks the remote to delete a project
OutOfBandDelete ==
  \E i \in Ids :
    /\ Exists(remote[i])
    /\ ~remote[i].delTs
    /\ remote' = [remote EXCEPT ![i] = Deleting(@)]
    /\ UNCHANGED <<loc, twin>>

\* the remote starts to take down a project marked for deletion
Terminate ==
  \E i \in Ids :
    /\ remote[i].delTs
    /\ remote[i].status # projectTerminating
    /\ remote' = [remote EXCEPT ![i].status = projectTerminating]
    /\ UNCHANGED <<loc, twin>>

\* the remote finishes a deletion: the project is gone
Vanish ==
  \E i \in Ids :
    /\ remote[i].delTs
    /\ remote' = [remote EXCEPT ![i] = Gone]
    /\ UNCHANGED <<loc, twin>>

Next ==
  \/ StartCreate \/ CreateCall \/ CreatePoll
  \/ StartRead \/ ReadProbe
  \/ StartUpdate \/ UpdateCall
  \/ StartDelete \/ DeleteCall \/ DeleteProbe
  \/ ClockTick \/ LoopTimeout
  \/ Activate \/ OutOfBandDelete \/ Terminate \/ Vanish

Spec == Init /\ [][Next]_vars

\* time passes and timers fire: the clock of a running loop advances and the
\* loop's timeout is delivered
FairSpec == Spec /\ WF_vars(ClockTick) /\ WF_vars(LoopTimeout)

(* ---------------------------- reading the call log --------------------- *)

Last(q) == q[Len(q)]

\* the answers the operation's loop at site got so far, in order
Observed(L, site) ==
  LET F[k \in 0..Len(L.log)] ==
        IF k = 0 THEN << >>
        ELSE IF L.log[k][1] = site THEN Append(F[k - 1], L.log[k][2]) ELSE F[k - 1]
  IN F[Len(L.log)]

Statuses == {projectInactive, projectActive, projectTerminating}
Absent == {"403", "404"}

\* an operation has returned to Terraform
Returned(L, op) == L.pc = "idle" /\ L.op = op

(* ---------------------------- C1 --------------------------------------- *)

\* C1: Create's poll, on n >= 0 Inactive observations followed by Active,
\* converges at the (n+1)-th probe: the Active observation is the last probe
\* of the poll, all poll probes before it observed Inactive, the identity is
\* set to the created project's and what follows are the probes of Read; Read
\* is entered in no other way, and an Inactive observation ends the poll only
\* by timeout.
C1_CreatePollConverges ==
  LET obs == Observed(loc, "create_poll")
  IN loc.op = "create" =>
       /\ \A k \in DOMAIN loc.log :
            loc.log[k] = <<"create_poll", projectActive>> =>
              /\ \A j \in 2..(k - 1) : loc.log[j] = <<"create_poll", projectInactive>>
              /\ Len(obs) = k - 1
              /\ \A j \in (k + 1)..Len(loc.log) : loc.log[j][1] = "read_loop"
              /\ loc.pc \in {"read_loop", "idle"}
              /\ loc.id \in {loc.cid, ""}
              /\ (loc.id = "" => Last(loc.log)[1] = "read_loop" /\ Last(loc.log)[2] \in Absent)
       /\ (loc.pc = "read_loop" => Len(obs) > 0 /\ Last(obs) = projectActive)
       /\ (loc.pc = "idle" /\ Len(obs) > 0 /\ Last(obs) = projectInactive
             => loc.result.err.kind = "Timeout")

\* Create observed Inactive, Inactive, Active and went on to Read
C1_Witness ==
  /\ loc.op = "create"
  /\ loc.pc = "read_loop"
  /\ Observed(loc, "create_poll") = <<projectInactive, projectInactive, projectActive>>
  /\ loc.id = loc.cid

(* ---------------------------- C2 --------------------------------------- *)

\* C2: Delete's loop, after a successful delete call, on n >= 0 reads that
\* find the project followed by a read classified NotFound, returns nil at
\* the (n+1)-th probe: the NotFound answer is the last call of Delete, every
\* probe before it found the project, and a probe that finds the project
\* ends Delete only by timeout.
C2_DeleteConverges ==
  LET obs == Observed(loc, "delete_loop")
  IN loc.op = "delete" =>
       /\ \A k \in DOMAIN loc.log :
            (loc.log[k][1] = "delete_loop" /\ loc.log[k][2] \in Absent) =>
              /\ k = Len(loc.log)
              /\ loc.log[1][1] = "delete_call" /\ loc.log[1][2] \in Statuses
              /\ \A j \in 2..(k - 1) :
                   loc.log[j][1] = "delete_loop" /\ loc.log[j][2] \in Statuses
              /\ loc.probes = k - 1
              /\ loc.pc = "idle"
              /\ loc.result = [op |-> "delete", err |-> NoErr]
       /\ (loc.pc = "idle" /\ Len(obs) > 0 /\ Last(obs) \in Statuses
             => loc.elapsed = Timeout /\ loc.result.err.kind = "StillExists")

\* Delete found the project twice, then got NotFound, and returned nil
C2_Witness ==
  /\ Returned(loc, "delete")
  /\ Len(loc.log) = 4
  /\ loc.log[2][2] \in Statuses
  /\ loc.log[3][2] \in Statuses
  /\ loc.log[4] = <<"delete_loop", "404">>
  /\ loc.result.err = NoErr

(* ---------------------------- C3 --------------------------------------- *)

\* C3: in every loop that probes the remote, a transient network error of a
\* GetProject probe, the timeout not having fired, does not end the loop.
C3_RetryableAbsorbed ==
  [][ ( /\ InLoop(loc)
        /\ loc.elapsed < Timeout
        /\ Len(loc'.log) = Len(loc.log) + 1
        /\ Last(loc'.log)[2] = "net-transient" )
      => loc'.pc = loc.pc ]_vars

(* ---------------------------- C4 --------------------------------------- *)

\* C4: when Read's probe is answered with an error classified NotFound (404
\* or 403), that probe is Read's last call, Read returns nil and the local
\* identity is empty.
C4_ReadAbsent ==
  \A k \in DOMAIN loc.log :
    (loc.log[k][1] = "read_loop" /\ loc.log[k][2] \in Absent) =>
      /\ k = Len(loc.log)
      /\ loc.pc = "idle"
      /\ loc.result.err = NoErr
      /\ loc.id = ""

\* Read of a tracked project got 403 and returned
C4_Witness ==
  /\ Returned(loc, "read")
  /\ loc.prev.id # ""
  /\ Len(loc.log) > 0
  /\ Last(loc.log) = <<"read_loop", "403">>
  /\ loc.id = ""

(* ---------------------------- C5 --------------------------------------- *)

\* what an operation shows apart from which of 403 and 404 it was answered
Norm(label) == IF label \in Absent THEN "absent" ELSE label

NormErr(e) == [e EXCEPT !.cause = Norm(@)]

View(L) ==
  [L EXCEPT !.log = [k \in DOMAIN @ |-> <<@[k][1], Norm(@[k][2])>>],
            !.result = [op |-> @.op, err |-> NormErr(@.err)],
            !.lastErr = NormErr(@),
            !.resultErr = NormErr(@)]

\* C5: twin runs the same operations as loc on the same answers, except that
\* any 403 answer may be a 404 and any 404 a 403; the two never differ in
\* position, remote calls issued, returned outcome, identity or attributes.
C5_ForbiddenAsNotFound == View(twin) = View(loc)

\* Delete ended on a 403 in one run and on a 404 in the other
C5_Witness ==
  /\ Returned(loc, "delete")
  /\ Len(loc.log) > 1
  /\ Last(loc.log) = <<"delete_loop", "403">>
  /\ Last(twin.log) = <<"delete_loop", "404">>

(* ---------------------------- C6 --------------------------------------- *)

\* C6: the body Update sends carries the configured name, whatever changed;
\* it carries labels exactly when the configured labels differ from the
\* labels the state held when Update began, and then the whole configured
\* label set.
C6_UpdatePayload ==
  (loc.op = "update" /\ Len(loc.log) >= 1) =>
    /\ loc.payload.name = loc.cfgName
    /\ loc.payload.hasLabels <=> (loc.cfgLabels # loc.prev.labels)
    /\ loc.payload.hasLabels => loc.payload.labels = loc.cfgLabels

\* Update with the name unchanged and the labels grown from {a:1} to {a:1, b:2}
C6_Witness ==
  /\ loc.op = "update"
  /\ Len(loc.log) >= 1
  /\ loc.cfgName = loc.prev.name
  /\ loc.prev.labels = {<<"a", "1">>}
  /\ loc.payload = [name |-> loc.prev.name, hasLabels |-> TRUE,
                    labels |-> {<<"a", "1">>, <<"b", "2">>}]

(* ---------------------------- C7 --------------------------------------- *)

\* Create returned after a successful create call and a poll all of whose
\* probes observed Inactive
CreateOnlyInactive ==
  /\ Returned(loc, "create")
  /\ Len(loc.log) >= 1
  /\ loc.log[1] = <<"create_call", projectInactive>>
  /\ \A j \in 2..Len(loc.log) : loc.log[j] = <<"create_poll", projectInactive>>

\* C7: Create's poll always ends, and when all its probes observed Inactive
\* Create returns, the timeout having elapsed, a Timeout error and not nil.
C7_CreatePollTimesOut ==
  /\ (loc.pc = "create_poll") ~> (loc.pc # "create_poll")
  /\ [](CreateOnlyInactive =>
          /\ loc.result.err.kind = "Timeout"
          /\ loc.elapsed = Timeout
          /\ loc.id = "")

\* Create timed out after probes that all observed Inactive
C7_Witness ==
  /\ CreateOnlyInactive
  /\ Len(loc.log) >= 3
  /\ loc.result.err.kind = "Timeout"
  /\ loc.result.err.status = projectInactive

(* ---------------------------- C8 --------------------------------------- *)

\* Delete returned after a successful delete call and a loop all of whose
\* probes found the project
DeleteOnlyFound ==
  /\ Returned(loc, "delete")
  /\ Len(loc.log) >= 1
  /\ loc.log[1][1] = "delete_call" /\ loc.log[1][2] \in Statuses
  /\ \A j \in 2..Len(loc.log) :
       loc.log[j][1] = "delete_loop" /\ loc.log[j][2] \in Statuses

\* C8: Delete's loop always ends, and when all its probes found the project
\* Delete returns, the timeout having elapsed, an error and not nil; the
\* error quotes the status the last probe observed.
C8_DeleteTimesOut ==
  /\ (loc.pc = "delete_loop") ~> (loc.pc # "delete_loop")
  /\ [](DeleteOnlyFound =>
          /\ loc.result.err # NoErr
          /\ loc.elapsed = Timeout
          /\ (Len(loc.log) >= 2 => loc.result.err.status = Last(loc.log)[2]))

\* Delete timed out having seen the project Active, then Terminating
C8_Witness ==
  /\ DeleteOnlyFound
  /\ Len(loc.log) >= 3
  /\ loc.log[Len(loc.log) - 1][2] = projectActive
  /\ Last(loc.log)[2] = projectTerminating
  /\ loc.result.err.status = projectTerminating

(* ---------------------------- C9 --------------------------------------- *)

\* C9: when Create has returned, the project it created does not exist
\* remotely with the local identity empty.
C9_IdentityIffRemote ==
  (Returned(loc, "create") /\ loc.cid # "" /\ Exists(remote[loc.cid])) => loc.id # ""

(* ---------------------------- C10 -------------------------------------- *)

\* C10 as claimed: when Update returns, the local identity is the identity
\* the resource had when Update began.
C10_IdentityImmutable == Returned(loc, "update") => loc.id = loc.prev.id

\* C10 as amended: during and after Update the local identity is the one the
\* resource had when Update began, or it is empty; it is empty only when the
\* probe of the trailing Read was classified NotFound (404 or 403), which is
\* Update's last call and makes Update return nil; it is kept when the
\* update call fails.
C10_IdentityKeptOrDropped ==
  loc.op = "update" =>
    /\ loc.id \in {loc.prev.id, ""}
    /\ loc.id = "" =>
         /\ loc.pc = "idle"
         /\ loc.result.err = NoErr
         /\ Last(loc.log)[1] = "read_loop"
         /\ Last(loc.log)[2] \in Absent
    /\ (Len(loc.log) >= 1 /\ loc.log[1][2] \notin Statuses) => loc.id = loc.prev.id

\* Update returned after its trailing Read found the project gone
C10_Witness ==
  /\ Returned(loc, "update")
  /\ loc.prev.id # ""
  /\ Len(loc.log) = 2
  /\ loc.log[2] = <<"read_loop", "404">>
  /\ loc.id = ""

(* ---------------------------- C11 -------------------------------------- *)

\* C11: every error Create (once the remote assigned the id), Read, Update
\* or Delete returns names the project id and the operation.
C11_ErrorsWrapped ==
  ( /\ loc.pc = "idle"
    /\ loc.result.err # NoErr
    /\ (loc.op = "create" => loc.cid # "") )
  => (loc.result.err.hasId /\ loc.result.err.hasOp)

(* ---------------------------- C12 -------------------------------------- *)

\* answers of GetProject that are errors other than transient network
\* errors, 403 and 404
OtherErrors == {"net-permanent", "conflict", "unauthorized", "500", "unknown"}

\* C12: what Read does after a probe is decided by the kind of the answer:
\* on a network error that reports timeout or temporary it goes on probing
\* (or, the timeout having fired, returns the network issue); on 403 or 404
\* it returns nil with the id cleared; on any other error it returns that
\* error and keeps the id; on success it returns nil.  Read goes on probing
\* in no other case.
C12_ReadClassification ==
  (Len(loc.log) > 0 /\ Last(loc.log)[1] = "read_loop") =>
    LET l == Last(loc.log)[2]
    IN /\ l \in {"net-transient"} \cup Absent \cup OtherErrors \cup Statuses
       /\ l = "net-transient" =>
            \/ loc.pc = "read_loop"
            \/ /\ loc.pc = "idle"
               /\ loc.elapsed = Timeout
               /\ loc.result.err.kind = "NetworkIssue"
       /\ l \in Absent =>
            loc.pc = "idle" /\ loc.result.err = NoErr /\ loc.id = ""
       /\ l \in OtherErrors =>
            /\ loc.pc = "idle"
            /\ loc.result.err.kind = "RemoteError"
            /\ loc.result.err.cause = l
            /\ loc.id # ""
       /\ l \in Statuses =>
            loc.pc = "idle" /\ loc.result.err = NoErr /\ loc.id # ""
       /\ loc.pc = "read_loop" => l = "net-transient"

\* Read retried a transient network error and then returned a conflict
C12_Witness ==
  /\ Returned(loc, "read")
  /\ loc.log = << <<"read_loop", "net-transient">>, <<"read_loop", "conflict">> >>
  /\ loc.result.err.kind = "RemoteError"

(* ---------------------------- C13 -------------------------------------- *)

LoopSites == {"create_poll", "read_loop", "delete_loop"}

\* C13: in Create's poll, Read's loop and Delete's loop, a probe answered
\* with an error other than a transient network error, 403 or 404 is the
\* operation's last remote call, and the operation returns an error quoting
\* it, whatever the time left.
C13_NonRetryableAborts ==
  \A k \in DOMAIN loc.log :
    (loc.log[k][1] \in LoopSites /\ loc.log[k][2] \in OtherErrors) =>
      /\ k = Len(loc.log)
      /\ loc.pc = "idle"
      /\ loc.result.err # NoErr
      /\ loc.result.err.cause = loc.log[k][2]

\* Delete's loop found the project, then got a conflict with time left
C13_Witness ==
  /\ Returned(loc, "delete")
  /\ Len(loc.log) = 3
  /\ loc.log[2][2] \in Statuses
  /\ loc.log[3] = <<"delete_loop", "conflict">>
  /\ loc.elapsed < Timeout
  /\ loc.result.err.kind = "RemoteError"

(* ---------------------------- C14 -------------------------------------- *)

\* C14: a probe of Create's poll that observes a status other than Inactive
\* and Active is Create's last remote call; Create returns an error quoting
\* that status, an UnexpectedState error when the timeout had not fired, and
\* the id stays empty.
C14_UnexpectedStateAborts ==
  \A k \in DOMAIN loc.log :
    ( /\ loc.log[k][1] = "create_poll"
      /\ loc.log[k][2] \in Statuses \ {projectInactive, projectActive} ) =>
      /\ k = Len(loc.log)
      /\ loc.pc = "idle"
      /\ loc.result.err.status = loc.log[k][2]
      /\ loc.elapsed < Timeout => loc.result.err.kind = "UnexpectedState"
      /\ loc.elapsed = Timeout => loc.result.err.kind = "Timeout"
      /\ loc.id = ""

\* Create's poll saw Inactive, then Terminating, with time left
C14_Witness ==
  /\ Returned(loc, "create")
  /\ Observed(loc, "create_poll") = <<projectInactive, projectTerminating>>
  /\ loc.elapsed < Timeout
  /\ loc.result.err.kind = "UnexpectedState"
  /\ loc.result.err.status = projectTerminating

(* ---------------------------- C15 -------------------------------------- *)

\* C15: a probe of Create's poll answered 404 or 403 is Create's last remote
\* call: Create returns an error, does not go on to Read, and the id stays
\* empty.
C15_CreateNotFoundFails ==
  \A k \in DOMAIN loc.log :
    (loc.log[k][1] = "create_poll" /\ loc.log[k][2] \in Absent) =>
      /\ k = Len(loc.log)
      /\ loc.pc = "idle"
      /\ loc.result.err.kind \in {"RemoteError", "Timeout"}
      /\ loc.result.err.cause = loc.log[k][2]
      /\ loc.id = ""

\* Create's poll saw Inactive, then the project was gone
C15_Witness ==
  /\ Returned(loc, "create")
  /\ Observed(loc, "create_poll") = <<projectInactive, "404">>
  /\ loc.result.err.kind = "RemoteError"

(* ---------------------------- C16 -------------------------------------- *)

\* C16: when CreateProject answers with an error, that call is Create's only
\* remote call: Create returns an error, no probe is made and the id is empty.
C16_CreateCallFails ==
  (loc.op = "create" /\ Len(loc.log) >= 1 /\ loc.log[1][2] \notin Statuses) =>
    /\ Len(loc.log) = 1
    /\ loc.pc = "idle"
    /\ loc.result.err.kind = "CreateFailed"
    /\ loc.probes = 0
    /\ loc.cid = ""
    /\ loc.id = ""

\* CreateProject failed with a transient network error
C16_Witness ==
  /\ Returned(loc, "create")
  /\ loc.log = << <<"create_call", "net-transient">> >>
  /\ loc.result.err.kind = "CreateFailed"

(* ---------------------------- C17 -------------------------------------- *)

\* C17: when DeleteProject answers with an error, 404 and 403 and transient
\* network errors included, that call is Delete's only remote call: Delete
\* returns an error and no probe is made.
C17_DeleteCallFails ==
  (loc.op = "delete" /\ Len(loc.log) >= 1 /\ loc.log[1][2] \notin Statuses) =>
    /\ Len(loc.log) = 1
    /\ loc.pc = "idle"
    /\ loc.result.err.kind = "DeleteFailed"
    /\ loc.result.err.cause = loc.log[1][2]
    /\ loc.probes = 0
    /\ loc.id = loc.prev.id

\* DeleteProject found the project already gone
C17_Witness ==
  /\ Returned(loc, "delete")
  /\ loc.log = << <<"delete_call", "404">> >>
  /\ loc.result.err.kind = "DeleteFailed"

(* ---------------------------- C18 -------------------------------------- *)

\* C18: Update's first remote call is UpdateProject and all its later calls
\* are the probes of Read.  When UpdateProject answers with an error, 404 and
\* 403 included, it is Update's only call, Update returns an error and the
\* id, name and labels of the state are as before.  When it succeeds Update
\* runs Read: it returns only after a probe of Read or Read's timeout.
C18_UpdateCallOnce ==
  (loc.op = "update" /\ Len(loc.log) >= 1) =>
    /\ loc.log[1][1] = "update_call"
    /\ \A j \in 2..Len(loc.log) : loc.log[j][1] = "read_loop"
    /\ loc.log[1][2] \notin Statuses =>
         /\ Len(loc.log) = 1
         /\ loc.pc = "idle"
         /\ loc.result.err.kind = "UpdateFailed"
         /\ loc.result.err.cause = loc.log[1][2]
         /\ loc.id = loc.prev.id
         /\ loc.name = loc.prev.name
         /\ loc.labels = loc.prev.labels
    /\ loc.log[1][2] \in Statuses =>
         /\ loc.pc \in {"read_loop", "idle"}
         /\ loc.pc = "idle" =>
              \/ Len(loc.log) >= 2
              \/ loc.elapsed = Timeout /\ loc.result.err.kind = "Timeout"

\* UpdateProject found the project gone and Update returned the error
C18_Witness ==
  /\ Returned(loc, "update")
  /\ loc.log = << <<"update_call", "404">> >>
  /\ loc.result.err.kind = "UpdateFailed"
  /\ loc.id # ""

(* ---------------------------- C19 -------------------------------------- *)

\* C19: Delete returns nil only when DeleteProject succeeded and the last
\* probe after it was answered 404 or 403.
C19_DeleteConfirmed ==
  (Returned(loc, "delete") /\ loc.result.err = NoErr) =>
    /\ Len(loc.log) >= 2
    /\ loc.log[1][1] = "delete_call" /\ loc.log[1][2] \in Statuses
    /\ Last(loc.log)[1] = "delete_loop"
    /\ Last(loc.log)[2] \in Absent

\* Delete saw the project Terminating, then gone, and returned nil
C19_Witness ==
  /\ Returned(loc, "delete")
  /\ loc.result.err = NoErr
  /\ Len(loc.log) = 3
  /\ loc.log[2] = <<"delete_loop", projectTerminating>>
  /\ loc.log[3] = <<"delete_loop", "404">>
  /\ ~Exists(remote[loc.id])

(* ---------------------------- C20 -------------------------------------- *)

\* C20 as claimed: when Create returns nil the local identity is the one
\* CreateProject assigned.
C20_CreateSuccessHasIdentity ==
  (Returned(loc, "create") /\ loc.result.err = NoErr) =>
    (loc.id # "" /\ loc.id = loc.cid)

\* C20 as amended: when Create returns nil, its last call was a probe of
\* Read; either that probe found the project, and then the local identity is
\* the one CreateProject assigned and name, labels and status are those the
\* probe read, or that probe was answered 404 or 403, and then the local
\* identity is empty.
C20_CreatePostcondition ==
  (Returned(loc, "create") /\ loc.result.err = NoErr) =>
    /\ Last(loc.log)[1] = "read_loop"
    /\ \/ /\ Last(loc.log)[2] \in Absent
          /\ loc.id = ""
       \/ /\ Last(loc.log)[2] \in Statuses
          /\ loc.cid # ""
          /\ loc.id = loc.cid
          /\ loc.name = loc.cfgName
          /\ loc.labels = loc.cfgLabels
          /\ loc.status = Last(loc.log)[2]

\* Create with labels saw Inactive, Active, and Read found the project Active
C20_Witness ==
  /\ Returned(loc, "create")
  /\ loc.result.err = NoErr
  /\ Observed(loc, "create_poll") = <<projectInactive, projectActive>>
  /\ Observed(loc, "read_loop") = <<projectActive>>
  /\ loc.id = "p1"
  /\ loc.labels = {<<"a", "1">>, <<"b", "2">>}
  /\ loc.status = projectActive

====
